---- MODULE Spec2Model ----
(***************************************************************************)
(* Model of src/app.py: the three table transformations                    *)
(*   nettoyer_fichier   (dedup, keep the most recent valid reading),       *)
(*   comparer_fichiers  (rows of file 1 whose meter is absent from file 2),*)
(*   ajouter_diametres  (left merge of the Diametre column).               *)
(* A DataFrame is [columns, rows]; a row is [label, cells]: the label is   *)
(* the pandas index label and cells maps each column name to a cell.       *)
(***************************************************************************)
EXTENDS Naturals, Sequences, FiniteSets, TLC

VARIABLES pc, df1, df2, orig1, orig2, ret, ret1, ret2, erreurs

vars == <<pc, df1, df2, orig1, orig2, ret, ret1, ret2, erreurs>>

(* ---------------------------- bounds ---------------------------------- *)
\* longest file handed to nettoyer_fichier
MaxLignes == 3
\* rows of other meters around the rows of the worked example
MaxAutres == 1
\* longest file 1 / extraction file of comparer_fichiers and ajouter_diametres
MaxLignesA == 3
\* longest file 2 / diameter file
MaxLignesB == 2

(* ----------------------------- cells ---------------------------------- *)
\* Every cell is a record of the same shape: t is the dynamic type of the
\* value ("str", "ts" = Timestamp, "nan" = NaN/None, "nat" = NaT), s the text
\* of a str, n the ordinal yyyymmdd of a Timestamp.
Str(s) == [t |-> "str", s |-> s, n |-> 0]
Ts(n) == [t |-> "ts", s |-> "", n |-> n]
NaN == [t |-> "nan", s |-> "", n |-> 0]
NaT == [t |-> "nat", s |-> "", n |-> 0]

COL_COMPTEUR == "N° compteur"
COL_DATE == "Date"
COL_INDEX == "Index"
COL_NUMERO == "Numéro de compteur"
COL_DIAMETRE == "Diametre"

Range(s) == {s[i] : i \in 1..Len(s)}

\* pd.DataFrame()
EmptyDataFrame == [columns |-> <<>>, rows |-> <<>>]

\* col in df.columns
HasCol(df, col) == col \in Range(df.columns)

\* The subsequence of s at the positions in keep, in order: what a boolean
\* mask df[mask] selects.
Masque(s, keep) ==
    LET F[i \in 0..Len(s)] ==
            IF i = 0 THEN <<>>
            ELSE IF i \in keep THEN Append(F[i - 1], s[i]) ELSE F[i - 1]
    IN F[Len(s)]

(* ------------------------- text of the cells -------------------------- *)
\* The characters of the texts used as Index values (TLC strings are atoms).
Chars(s) ==
    CASE s = "" -> <<>>
      [] s = "  " -> <<" ", " ">>
      [] s = "50" -> <<"5", "0">>
      [] s = "100" -> <<"1", "0", "0">>
      [] s = "nan" -> <<"n", "a", "n">>
      [] OTHER -> <<"?">>

\* Series.astype(str): the text of a cell
astype_str(c) ==
    CASE c.t = "str" -> Chars(c.s)
      [] c.t = "nan" -> Chars("nan")
      [] OTHER -> <<"?">>

RECURSIVE lstrip(_)
lstrip(cs) == IF cs # <<>> /\ Head(cs) = " " THEN lstrip(Tail(cs)) ELSE cs

RECURSIVE rstrip(_)
rstrip(cs) ==
    IF cs # <<>> /\ cs[Len(cs)] = " " THEN rstrip(SubSeq(cs, 1, Len(cs) - 1)) ELSE cs

\* str.strip()
strip(cs) == rstrip(lstrip(cs))

\* pd.notna
notna(c) == c.t \notin {"nan", "nat"}

\* The fields of the texts used as Date values (TLC strings are atoms): the
\* numbers between the "/" separators, none for a text that is no date. The
\* files of the model write their dates as dd/mm/yyyy.
DateFields(s) ==
    CASE s = "10/01/2024" -> <<10, 1, 2024>>
      [] s = "05/02/2024" -> <<5, 2, 2024>>
      [] s = "01/12/2023" -> <<1, 12, 2023>>
      [] OTHER -> <<>>

\* A Timestamp as the ordinal yyyymmdd, which orders as the dates do.
Ordinal(y, m, d) == y * 10000 + m * 100 + d

\* The same texts read month first, as to_datetime does without dayfirst.
ParseMonthFirst(s) ==
    LET f == DateFields(s)
    IN  IF Len(f) = 3 /\ f[1] \in 1..12 /\ f[2] \in 1..31
            THEN Ts(Ordinal(f[3], f[1], f[2]))
            ELSE NaT

\* Parsing of one text with dayfirst=True: "a/b/y" is day a of month b; a
\* text that is no date gives NaT (errors='coerce').
ParseDayFirst(s) ==
    LET f == DateFields(s)
    IN  IF Len(f) = 3 /\ f[2] \in 1..12 /\ f[1] \in 1..31
            THEN Ts(Ordinal(f[3], f[2], f[1]))
            ELSE NaT

\* to_datetime that parses texts only and gives NaT for a Timestamp.
to_datetime_texts_only(c) ==
    CASE c.t = "str" -> ParseDayFirst(c.s)
      [] OTHER -> NaT

\* pd.to_datetime(cell, errors='coerce', dayfirst=True)
to_datetime(c) ==
    CASE c.t = "ts" -> c
      [] c.t = "str" -> ParseDayFirst(c.s)
      [] OTHER -> NaT

(* ------------------------------ keys ---------------------------------- *)
\* The meter numbers of the model, in the order sort_values puts them.
KeyOrder == <<"K1", "K2", "K3">>

\* Position of a key cell in the ascending order; NaN sorts last.
KeyRank(c) ==
    IF c.t = "str" /\ c.s \in Range(KeyOrder)
        THEN CHOOSE i \in 1..Len(KeyOrder) : KeyOrder[i] = c.s
        ELSE Len(KeyOrder) + 1

(* ------------------------ nettoyer_fichier ---------------------------- *)
colonnes_requises == <<COL_COMPTEUR, COL_DATE, COL_INDEX>>

\* [col for col in colonnes_requises if col not in df.columns]
cols_manquantes(df) ==
    Masque(colonnes_requises,
           {i \in DOMAIN colonnes_requises : ~HasCol(df, colonnes_requises[i])})

\* st.error(f"Erreur : il manque les colonnes suivantes : {...}")
ErreurManque(cols) == [texte |-> "il manque les colonnes suivantes", colonnes |-> cols]

\* df['Date'] = pd.to_datetime(df['Date'], errors='coerce', dayfirst=True)
AssignDate(rows) ==
    [i \in 1..Len(rows) |->
        [rows[i] EXCEPT !.cells[COL_DATE] = to_datetime(@)]]

\* df.dropna(subset=['Date'], inplace=True)
dropna_Date(rows) == Masque(rows, {i \in DOMAIN rows : notna(rows[i].cells[COL_DATE])})

\* Row a sorts strictly before row b: "N° compteur" ascending, then "Date"
\* descending.
Avant(a, b) ==
    \/ KeyRank(a.cells[COL_COMPTEUR]) < KeyRank(b.cells[COL_COMPTEUR])
    \/ /\ KeyRank(a.cells[COL_COMPTEUR]) = KeyRank(b.cells[COL_COMPTEUR])
       /\ a.cells[COL_DATE].n > b.cells[COL_DATE].n

\* df.sort_values(by=["N° compteur", "Date"], ascending=[True, False]): the
\* sort on several columns is stable, rows that compare equal keep their order.
sort_values(rows) ==
    LET Ins(t, r) ==
            LET p == Cardinality({k \in 1..Len(t) : ~Avant(r, t[k])})
            IN  SubSeq(t, 1, p) \o <<r>> \o SubSeq(t, p + 1, Len(t))
        F[i \in 0..Len(rows)] == IF i = 0 THEN <<>> ELSE Ins(F[i - 1], rows[i])
    IN  F[Len(rows)]

\* pd.notna(Index) & (Index.astype(str).str.strip() != '')
IndexValide(c) == notna(c) /\ strip(astype_str(c)) # <<>>

\* df_trie[...]: the rows whose Index is valid
filtre_Index(rows) ==
    Masque(rows, {i \in DOMAIN rows : IndexValide(rows[i].cells[COL_INDEX])})

\* drop_duplicates on all the columns: rows that differ anywhere are kept.
drop_duplicates_all_columns(rows) ==
    Masque(rows, {i \in DOMAIN rows : \A j \in 1..(i - 1) : rows[j].cells # rows[i].cells})

\* drop_duplicates(subset="N° compteur", keep="first")
drop_duplicates(rows) ==
    Masque(rows, {i \in DOMAIN rows :
        \A j \in 1..(i - 1) : rows[j].cells[COL_COMPTEUR] # rows[i].cells[COL_COMPTEUR]})

\* The duplicates dropped before the Index filter: the most recent row of a
\* meter is kept, then dropped when its Index is empty.
nettoyer_fichier_dedup_first(df) ==
    IF cols_manquantes(df) # <<>>
        THEN [df |-> df, ret |-> EmptyDataFrame,
              err |-> <<ErreurManque(cols_manquantes(df))>>]
        ELSE LET dated == dropna_Date(AssignDate(df.rows))
             IN  [df |-> [df EXCEPT !.rows = dated],
                  ret |-> [columns |-> df.columns,
                           rows |-> filtre_Index(drop_duplicates(sort_values(dated)))],
                  err |-> <<>>]

\* nettoyer_fichier(df): df is the caller's DataFrame after the call, ret the
\* returned DataFrame, err the st.error messages.
nettoyer_fichier(df) ==
    IF cols_manquantes(df) # <<>>
        THEN [df |-> df, ret |-> EmptyDataFrame,
              err |-> <<ErreurManque(cols_manquantes(df))>>]
        ELSE LET dated == dropna_Date(AssignDate(df.rows))
                 df_trie == sort_values(dated)
                 df_filtre == filtre_Index(df_trie)
                 df_final == drop_duplicates(df_filtre)
             IN  [df |-> [df EXCEPT !.rows = dated],
                  ret |-> [columns |-> df.columns, rows |-> df_final],
                  err |-> <<>>]

(* ------------------------------ inputs -------------------------------- *)
\* The rows over the columns cols whose cell in column c is one of dom[c].
RowsOver(cols, dom) ==
    {f \in [Range(cols) -> UNION {dom[c] : c \in Range(cols)}] :
        \A c \in Range(cols) : f[c] \in dom[c]}

\* The file read_csv produces from the rows f under the header cols; the
\* labels are the RangeIndex 0, 1, ...
File(cols, f) ==
    [columns |-> cols,
     rows |-> [i \in DOMAIN f |-> [label |-> i - 1, cells |-> f[i]]]]

\* The cells of the readings files: two meters, two dates and a text that is
\* no date, an Index that is null, empty, blank or filled.
KeyCells == {Str("K1"), Str("K2")}
DateCells == {Str("10/01/2024"), Str("05/02/2024"), Str("not-a-date")}
IndexCells == {NaN, Str(""), Str("  "), Str("50")}

CellsNettoyage ==
    COL_COMPTEUR :> KeyCells @@ COL_DATE :> DateCells @@ COL_INDEX :> IndexCells

\* The column lists of the files given to nettoyer_fichier.
ColsNettoyage ==
    {<<COL_COMPTEUR, COL_DATE, COL_INDEX>>, <<COL_COMPTEUR, COL_DATE>>,
     <<COL_COMPTEUR, COL_INDEX>>, <<COL_DATE, COL_INDEX>>, <<COL_COMPTEUR>>,
     <<COL_INDEX>>}

(* --------------------- page "Nettoyage Doublons" ---------------------- *)
\* Nothing has been called yet: the files are as loaded.
Charge ==
    /\ pc = "charge"
    /\ orig1 = df1
    /\ orig2 = df2
    /\ ret = EmptyDataFrame
    /\ ret1 = EmptyDataFrame
    /\ ret2 = EmptyDataFrame
    /\ erreurs = <<>>

InitNettoyage ==
    /\ \E cols \in ColsNettoyage, k \in 0..MaxLignes :
           \E f \in [1..k -> RowsOver(cols, CellsNettoyage)] : df1 = File(cols, f)
    /\ df2 = EmptyDataFrame
    /\ Charge

\* df_nettoye = nettoyer_fichier(df_initial)
Nettoyer ==
    /\ pc = "charge"
    /\ LET r == nettoyer_fichier(df1)
       IN  /\ df1' = r.df
           /\ ret' = r.ret
           /\ ret1' = r.ret
           /\ erreurs' = erreurs \o r.err
    /\ pc' = "nettoye"
    /\ UNCHANGED <<df2, orig1, orig2, ret2>>

\* nettoyer_fichier applied to its own result: ret1 is the first result as it
\* was returned, ret the same DataFrame after the second call, ret2 the second
\* result.
Renettoyer ==
    /\ pc = "nettoye"
    /\ LET r == nettoyer_fichier(ret)
       IN  /\ ret' = r.df
           /\ ret2' = r.ret
           /\ erreurs' = erreurs \o r.err
    /\ pc' = "renettoye"
    /\ UNCHANGED <<df1, df2, orig1, orig2, ret1>>

NextNettoyage == Nettoyer \/ Renettoyer

SpecNettoyage == InitNettoyage /\ [][NextNettoyage]_vars

(* ------------------------ the worked example -------------------------- *)
\* The rows of meter K1 in the example: 10 Jan 2024 with index 100, 5 Feb 2024
\* with an empty index, 1 Dec 2023 with index 50.
ExempleK1 ==
    <<(COL_COMPTEUR :> Str("K1") @@ COL_DATE :> Str("10/01/2024") @@ COL_INDEX :> Str("100")),
      (COL_COMPTEUR :> Str("K1") @@ COL_DATE :> Str("05/02/2024") @@ COL_INDEX :> Str("")),
      (COL_COMPTEUR :> Str("K1") @@ COL_DATE :> Str("01/12/2023") @@ COL_INDEX :> Str("50"))>>

\* The rows of the other meter.
AutresLignes ==
    {(COL_COMPTEUR :> Str("K2") @@ COL_DATE :> d @@ COL_INDEX :> x) :
        d \in DateCells, x \in IndexCells}

\* The file of n rows holding the example's row j at position p[j] and the
\* rows g, in their order, at the other positions.
Intercale(n, p, g) ==
    [i \in 1..n |->
        IF \E j \in 1..3 : p[j] = i
            THEN ExempleK1[CHOOSE j \in 1..3 : p[j] = i]
            ELSE g[Cardinality({k \in 1..i : \A j \in 1..3 : p[j] # k})]]

InitExemple ==
    /\ \E m \in 0..MaxAutres :
           \E p \in [1..3 -> 1..(3 + m)], g \in [1..m -> AutresLignes] :
               /\ \A a, b \in 1..3 : a # b => p[a] # p[b]
               /\ df1 = File(colonnes_requises, Intercale(3 + m, p, g))
    /\ df2 = EmptyDataFrame
    /\ Charge

SpecExemple == InitExemple /\ [][NextNettoyage]_vars

(* ------------------- properties of nettoyer_fichier ------------------- *)
\* The file has the three required columns.
ColonnesOK(df) == \A c \in Range(colonnes_requises) : HasCol(df, c)

\* The date of a loaded row parses.
DateLisible(r) == to_datetime(r.cells[COL_DATE]).t = "ts"

\* The Index of a row is not null and has a character that is no blank.
IndexRempli(r) ==
    /\ r.cells[COL_INDEX].t # "nan"
    /\ \E k \in DOMAIN Chars(r.cells[COL_INDEX].s) : Chars(r.cells[COL_INDEX].s)[k] # " "

\* The positions of the loaded rows of meter key with a date and an Index.
Candidats(df, key) ==
    {i \in DOMAIN df.rows :
        /\ df.rows[i].cells[COL_COMPTEUR] = key
        /\ DateLisible(df.rows[i])
        /\ IndexRempli(df.rows[i])}

\* Among them, the first in file order of those with the latest date.
Meilleur(df, key) ==
    CHOOSE i \in Candidats(df, key) :
        \A j \in Candidats(df, key) :
            LET di == to_datetime(df.rows[i].cells[COL_DATE]).n
                dj == to_datetime(df.rows[j].cells[COL_DATE]).n
            IN  dj < di \/ (dj = di /\ i <= j)

\* The loaded row as it appears in a result: its date parsed.
LigneSortie(r) == [r EXCEPT !.cells[COL_DATE] = to_datetime(@)]

\* C2: after nettoyer_fichier on a file with the required columns, the result
\* has a row for a meter exactly when the file has a row of that meter whose
\* date parses and whose Index is filled; every result row of the meter is the
\* first, in file order, of those rows with the latest date; no result row
\* comes from a row whose date does not parse.
C2_PlusRecenteValide ==
    (pc = "nettoye" /\ ColonnesOK(orig1)) =>
        /\ \A key \in KeyCells :
            /\ (\E k \in DOMAIN ret.rows : ret.rows[k].cells[COL_COMPTEUR] = key)
                    <=> Candidats(orig1, key) # {}
            /\ \A k \in DOMAIN ret.rows :
                    ret.rows[k].cells[COL_COMPTEUR] = key =>
                        ret.rows[k] = LigneSortie(orig1.rows[Meilleur(orig1, key)])
        /\ \A k \in DOMAIN ret.rows :
                \E i \in DOMAIN orig1.rows :
                    /\ orig1.rows[i].label = ret.rows[k].label
                    /\ DateLisible(orig1.rows[i])

\* A meter whose most recent row has an empty Index and which has two older
\* filled rows of the same date: the result holds the first of the two.
C2_Witness ==
    /\ pc = "nettoye"
    /\ ColonnesOK(orig1)
    /\ \E i, j, l \in DOMAIN orig1.rows :
        /\ i < j
        /\ l \notin {i, j}
        /\ \A x \in {i, j, l} : orig1.rows[x].cells[COL_COMPTEUR] = Str("K1")
        /\ \A x \in {i, j, l} : DateLisible(orig1.rows[x])
        /\ IndexRempli(orig1.rows[i]) /\ IndexRempli(orig1.rows[j])
        /\ ~IndexRempli(orig1.rows[l])
        /\ to_datetime(orig1.rows[i].cells[COL_DATE])
                = to_datetime(orig1.rows[j].cells[COL_DATE])
        /\ to_datetime(orig1.rows[l].cells[COL_DATE]).n
                > to_datetime(orig1.rows[i].cells[COL_DATE]).n
        /\ \E k \in DOMAIN ret.rows : ret.rows[k].label = orig1.rows[i].label

\* C6: after nettoyer_fichier on a file with the required columns, no two rows
\* of the result have the same meter, and the Index of every row of the result
\* is neither null nor blank.
C6_UneLigneParCompteur ==
    (pc = "nettoye" /\ ColonnesOK(orig1)) =>
        /\ \A a, b \in DOMAIN ret.rows :
                a # b => ret.rows[a].cells[COL_COMPTEUR] # ret.rows[b].cells[COL_COMPTEUR]
        /\ \A a \in DOMAIN ret.rows : IndexRempli(ret.rows[a])

\* A file with two filled rows of one meter that differ, a blank row of the
\* other meter, and a result of one row.
C6_Witness ==
    /\ pc = "nettoye"
    /\ ColonnesOK(orig1)
    /\ Len(ret.rows) = 1
    /\ \E i, j, l \in DOMAIN orig1.rows :
        /\ i # j
        /\ orig1.rows[i].cells[COL_COMPTEUR] = orig1.rows[j].cells[COL_COMPTEUR]
        /\ orig1.rows[i].cells # orig1.rows[j].cells
        /\ i \in Candidats(orig1, orig1.rows[i].cells[COL_COMPTEUR])
        /\ j \in Candidats(orig1, orig1.rows[i].cells[COL_COMPTEUR])
        /\ orig1.rows[l].cells[COL_COMPTEUR] # orig1.rows[i].cells[COL_COMPTEUR]
        /\ DateLisible(orig1.rows[l])
        /\ orig1.rows[l].cells[COL_INDEX] = Str("  ")

\* C8: nettoyer_fichier applied to its own result, for a file with the
\* required columns, returns a table equal to that result: same columns, same
\* rows in the same order, same cells.
C8_Idempotence ==
    (pc = "renettoye" /\ ColonnesOK(orig1)) => ret2 = ret1

\* The second call made on a first result of two rows, from a file of which
\* the first call dropped a row.
C8_Witness ==
    /\ pc = "renettoye"
    /\ ColonnesOK(orig1)
    /\ Len(ret1.rows) = 2
    /\ Len(ret2.rows) = 2
    /\ Len(orig1.rows) > 2

\* C5 (as claimed): once an operation has been called, the caller's files have
\* the rows, cells and columns they had before the call.
C5_EntreesInchangees ==
    pc # "charge" => (df1 = orig1 /\ df2 = orig2)

\* C10 (as claimed): in the worked example the result row of K1 is the one of
\* 1 Dec 2023 with index 50.
C10_Exemple_Claimed ==
    pc = "nettoye" =>
        \E k \in DOMAIN ret.rows :
            /\ ret.rows[k].cells[COL_COMPTEUR] = Str("K1")
            /\ ret.rows[k].cells[COL_DATE] = Ts(20231201)
            /\ ret.rows[k].cells[COL_INDEX] = Str("50")

\* C10 (amended): in the worked example the result has exactly one row of K1,
\* the one of 10 Jan 2024 with index 100.
C10_Exemple ==
    pc = "nettoye" =>
        /\ \E k \in DOMAIN ret.rows : ret.rows[k].cells[COL_COMPTEUR] = Str("K1")
        /\ \A k \in DOMAIN ret.rows :
                ret.rows[k].cells[COL_COMPTEUR] = Str("K1") =>
                    /\ ret.rows[k].cells[COL_DATE] = Ts(20240110)
                    /\ ret.rows[k].cells[COL_INDEX] = Str("100")

\* The example's rows loaded with the February row first and the December
\* row last, around a row of another meter, and cleaned.
C10_Witness ==
    /\ pc = "nettoye"
    /\ Len(orig1.rows) = 4
    /\ orig1.rows[1].cells = ExempleK1[2]
    /\ orig1.rows[4].cells = ExempleK1[3]
    /\ \E k \in DOMAIN ret.rows : ret.rows[k].cells[COL_INDEX] = Str("100")

(* ------------------------ comparer_fichiers --------------------------- *)
\* st.error("La colonne 'N° compteur' doit exister dans les deux fichiers.")
ErreurComparaison ==
    [texte |-> "La colonne doit exister dans les deux fichiers",
     colonnes |-> <<COL_COMPTEUR>>]

\* set(df['N° compteur']): the column is read as text (dtype str), an empty
\* cell is the one NaN object, so NaN is a member like any other value.
compteurs(df) == {df.rows[i].cells[COL_COMPTEUR] : i \in DOMAIN df.rows}

\* The rows of a, one per missing meter: the result with its duplicates dropped.
comparer_fichiers_sans_doublons(a, b) ==
    IF ~HasCol(a, COL_COMPTEUR) \/ ~HasCol(b, COL_COMPTEUR)
        THEN [ret |-> EmptyDataFrame, err |-> <<ErreurComparaison>>]
        ELSE LET compteurs_manquants == compteurs(a) \ compteurs(b)
             IN  [ret |-> [columns |-> a.columns,
                           rows |-> drop_duplicates(Masque(a.rows, {i \in DOMAIN a.rows :
                               a.rows[i].cells[COL_COMPTEUR] \in compteurs_manquants}))],
                  err |-> <<>>]

\* comparer_fichiers(df1, df2): a is df1, b is df2; ret the returned copy,
\* err the st.error messages.
comparer_fichiers(a, b) ==
    IF ~HasCol(a, COL_COMPTEUR) \/ ~HasCol(b, COL_COMPTEUR)
        THEN [ret |-> EmptyDataFrame, err |-> <<ErreurComparaison>>]
        ELSE LET compteurs_f1 == compteurs(a)
                 compteurs_f2 == compteurs(b)
                 compteurs_manquants == compteurs_f1 \ compteurs_f2
             IN  [ret |-> [columns |-> a.columns,
                           rows |-> Masque(a.rows, {i \in DOMAIN a.rows :
                               a.rows[i].cells[COL_COMPTEUR] \in compteurs_manquants})],
                  err |-> <<>>]

(* -------------------- page "Comparaison Fichiers" --------------------- *)
\* The cells of the compared files: three meters and the empty cell.
CellsComparaison ==
    COL_COMPTEUR :> {Str("K1"), Str("K2"), Str("K3"), NaN}
        @@ COL_INDEX :> {Str("50"), Str("100")}

ColsFichier1 == {<<COL_COMPTEUR, COL_INDEX>>, <<COL_INDEX>>}
ColsFichier2 == {<<COL_COMPTEUR>>, <<COL_INDEX>>}

InitComparaison ==
    /\ \E cols \in ColsFichier1, k \in 0..MaxLignesA :
           \E f \in [1..k -> RowsOver(cols, CellsComparaison)] : df1 = File(cols, f)
    /\ \E cols \in ColsFichier2, k \in 0..MaxLignesB :
           \E f \in [1..k -> RowsOver(cols, CellsComparaison)] : df2 = File(cols, f)
    /\ Charge

\* df_manquants = comparer_fichiers(df1, df2)
Comparer ==
    /\ pc = "charge"
    /\ LET r == comparer_fichiers(df1, df2)
       IN  /\ ret' = r.ret
           /\ ret1' = r.ret
           /\ erreurs' = erreurs \o r.err
    /\ pc' = "compare"
    /\ UNCHANGED <<df1, df2, orig1, orig2, ret2>>

NextComparaison == Comparer

SpecComparaison == InitComparaison /\ [][NextComparaison]_vars

\* C3: after comparer_fichiers on two files that have the meter column, every
\* row of the result is a row of file 1 whose meter is the meter of no row of
\* file 2, every such row of file 1 is in the result, and the rows of the
\* result are in the order of file 1, none repeated.
C3_Difference ==
    (pc = "compare" /\ HasCol(orig1, COL_COMPTEUR) /\ HasCol(orig2, COL_COMPTEUR)) =>
        /\ ret.columns = orig1.columns
        /\ \A k \in DOMAIN ret.rows :
            /\ \E i \in DOMAIN orig1.rows : orig1.rows[i] = ret.rows[k]
            /\ \A j \in DOMAIN orig2.rows :
                    orig2.rows[j].cells[COL_COMPTEUR] # ret.rows[k].cells[COL_COMPTEUR]
        /\ \A i \in DOMAIN orig1.rows :
                (\A j \in DOMAIN orig2.rows :
                    orig2.rows[j].cells[COL_COMPTEUR] # orig1.rows[i].cells[COL_COMPTEUR])
                => \E k \in DOMAIN ret.rows : ret.rows[k] = orig1.rows[i]
        /\ \A k, l \in DOMAIN ret.rows : k < l => ret.rows[k].label < ret.rows[l].label

\* File 1 has two rows of a meter absent from file 2 around a row of a meter
\* present in file 2: the result is the two rows.
C3_Witness ==
    /\ pc = "compare"
    /\ Len(orig1.rows) = 3
    /\ HasCol(orig1, COL_COMPTEUR) /\ HasCol(orig2, COL_COMPTEUR)
    /\ orig1.rows[1].cells[COL_COMPTEUR] = orig1.rows[3].cells[COL_COMPTEUR]
    /\ orig1.rows[2].cells[COL_COMPTEUR] \in compteurs(orig2)
    /\ Len(ret.rows) = 2

(* ------------------------ ajouter_diametres --------------------------- *)
\* st.error("Le fichier d'extraction doit avoir une colonne 'N° compteur'.")
ErreurExtraction ==
    [texte |-> "Le fichier d'extraction doit avoir une colonne",
     colonnes |-> <<COL_COMPTEUR>>]

\* st.error("Le fichier des diamètres doit avoir les colonnes 'Numéro de
\* compteur' et 'Diametre'.")
ErreurDiametres ==
    [texte |-> "Le fichier des diamètres doit avoir les colonnes",
     colonnes |-> <<COL_NUMERO, COL_DIAMETRE>>]

\* df[[...]]: the columns cols of df, in that order
Selection(df, cols) ==
    [columns |-> cols,
     rows |-> [i \in DOMAIN df.rows |->
                 [df.rows[i] EXCEPT !.cells = [c \in Range(cols) |-> df.rows[i].cells[c]]]]]

\* pd.merge(left, right, left_on=.., right_on=.., how='left'): the columns of
\* left then those of right, a name present on both sides suffixed _x on the
\* left and _y on the right; for each row of left, in order, one row per row
\* of right with the same key, in the order of right, or one row with the
\* columns of right empty when there is none; a new RangeIndex.
merge_left(left, right, left_on, right_on) ==
    LET communs == Range(left.columns) \cap Range(right.columns)
        NomG(c) == IF c \in communs THEN c \o "_x" ELSE c
        NomD(c) == IF c \in communs THEN c \o "_y" ELSE c
        columns == [i \in DOMAIN left.columns |-> NomG(left.columns[i])]
                       \o [i \in DOMAIN right.columns |-> NomD(right.columns[i])]
        Cells(l, r) ==
            [n \in Range(columns) |->
                IF \E c \in Range(left.columns) : NomG(c) = n
                    THEN l[CHOOSE c \in Range(left.columns) : NomG(c) = n]
                    ELSE r[CHOOSE c \in Range(right.columns) : NomD(c) = n]]
        Vide == [c \in Range(right.columns) |-> NaN]
        Paires(i) ==
            LET m == Masque(right.rows, {j \in DOMAIN right.rows :
                        right.rows[j].cells[right_on] = left.rows[i].cells[left_on]})
            IN  IF m = <<>>
                    THEN <<Cells(left.rows[i].cells, Vide)>>
                    ELSE [k \in DOMAIN m |-> Cells(left.rows[i].cells, m[k].cells)]
        F[i \in 0..Len(left.rows)] == IF i = 0 THEN <<>> ELSE F[i - 1] \o Paires(i)
    IN  File(columns, F[Len(left.rows)])

\* df.drop(columns=[col]), for a column df has
drop_column(df, col) ==
    LET cols == Masque(df.columns, {i \in DOMAIN df.columns : df.columns[i] # col})
    IN  [columns |-> cols,
         rows |-> [i \in DOMAIN df.rows |->
                     [df.rows[i] EXCEPT !.cells = [c \in Range(cols) |-> df.rows[i].cells[c]]]]]

\* ajouter_diametres(df_extraction, df_diametres): ret the returned DataFrame,
\* err the st.error messages, exc whether the call raised (the KeyError of
\* drop when the merged table has no column "Numéro de compteur").
ajouter_diametres(df_extraction, df_diametres) ==
    IF ~HasCol(df_extraction, COL_COMPTEUR)
        THEN [ret |-> EmptyDataFrame, err |-> <<ErreurExtraction>>, exc |-> FALSE]
    ELSE IF ~HasCol(df_diametres, COL_NUMERO) \/ ~HasCol(df_diametres, COL_DIAMETRE)
        THEN [ret |-> EmptyDataFrame, err |-> <<ErreurDiametres>>, exc |-> FALSE]
    ELSE LET df_fusionne ==
                 merge_left(df_extraction,
                            Selection(df_diametres, <<COL_NUMERO, COL_DIAMETRE>>),
                            COL_COMPTEUR, COL_NUMERO)
         IN  IF ~HasCol(df_fusionne, COL_NUMERO)
                 THEN [ret |-> EmptyDataFrame, err |-> <<>>, exc |-> TRUE]
                 ELSE [ret |-> drop_column(df_fusionne, COL_NUMERO),
                       err |-> <<>>, exc |-> FALSE]

(* ----------------------- page "Ajout Diamètre" ------------------------ *)
\* st.error(f"Oups, une erreur est survenue : {e}") for the KeyError of drop
ErreurOups == [texte |-> "Oups, une erreur est survenue", colonnes |-> <<COL_NUMERO>>]

\* The cells of the extraction and diameter files.
CellsAjout ==
    COL_COMPTEUR :> {Str("K1"), Str("K2")}
        @@ COL_NUMERO :> {Str("K1"), Str("K2")}
        @@ COL_DIAMETRE :> {Str("15"), Str("20")}
        @@ COL_INDEX :> {Str("50")}

ColsExtraction ==
    {<<COL_COMPTEUR, COL_INDEX>>, <<COL_INDEX>>, <<COL_COMPTEUR, COL_DIAMETRE>>,
     <<COL_COMPTEUR, COL_NUMERO>>}

ColsDiametres ==
    {<<COL_NUMERO, COL_DIAMETRE>>, <<COL_INDEX, COL_DIAMETRE, COL_NUMERO>>,
     <<COL_NUMERO>>, <<COL_DIAMETRE>>, <<COL_INDEX>>}

InitAjout ==
    /\ \E cols \in ColsExtraction, k \in 0..MaxLignesA :
           \E f \in [1..k -> RowsOver(cols, CellsAjout)] : df1 = File(cols, f)
    /\ \E cols \in ColsDiametres, k \in 0..MaxLignesB :
           \E f \in [1..k -> RowsOver(cols, CellsAjout)] : df2 = File(cols, f)
    /\ Charge

\* df_final = ajouter_diametres(df1, df2) inside the page's try/except
Ajouter ==
    /\ pc = "charge"
    /\ LET r == ajouter_diametres(df1, df2)
       IN  IF r.exc
               THEN /\ pc' = "echec"
                    /\ erreurs' = erreurs \o <<ErreurOups>>
                    /\ UNCHANGED <<ret, ret1>>
               ELSE /\ pc' = "ajoute"
                    /\ ret' = r.ret
                    /\ ret1' = r.ret
                    /\ erreurs' = erreurs \o r.err
    /\ UNCHANGED <<df1, df2, orig1, orig2, ret2>>

NextAjout == Ajouter

SpecAjout == InitAjout /\ [][NextAjout]_vars

(* ------------------- properties of ajouter_diametres ------------------ *)
\* Both files have the columns ajouter_diametres requires.
AjoutColonnesOK ==
    HasCol(orig1, COL_COMPTEUR) /\ HasCol(orig2, COL_NUMERO) /\ HasCol(orig2, COL_DIAMETRE)

\* The required columns the two files lack.
AjoutManquantes ==
    ({COL_COMPTEUR} \ Range(orig1.columns))
        \cup ({COL_NUMERO, COL_DIAMETRE} \ Range(orig2.columns))

\* The diameter column of a result: its last column.
ColDiametreSortie == ret.columns[Len(ret.columns)]

\* The Diametre of the first row of the diameter file with the meter key,
\* NaN when there is none.
PremierDiametre(key) ==
    IF \E j \in DOMAIN orig2.rows : orig2.rows[j].cells[COL_NUMERO] = key
        THEN LET j == CHOOSE j \in DOMAIN orig2.rows :
                        /\ orig2.rows[j].cells[COL_NUMERO] = key
                        /\ \A l \in 1..(j - 1) : orig2.rows[l].cells[COL_NUMERO] # key
             IN  orig2.rows[j].cells[COL_DIAMETRE]
        ELSE NaN

\* C1 (as claimed): when ajouter_diametres returns for files with the required
\* columns, the result has as many rows as the extraction file and its row i
\* carries the cells of row i of the extraction file.
C1_Totalite ==
    (pc = "ajoute" /\ AjoutColonnesOK) =>
        /\ Len(ret.rows) = Len(orig1.rows)
        /\ \A i \in DOMAIN ret.rows :
                \A c \in Range(orig1.columns) \cap Range(ret.columns) :
                    ret.rows[i].cells[c] = orig1.rows[i].cells[c]

\* C7 (as claimed): when ajouter_diametres returns for files with the required
\* columns, the diameter of every row of the result is the Diametre of the
\* first row of the diameter file with the row's meter, NaN when there is none.
C7_PremierDiametre ==
    (pc = "ajoute" /\ AjoutColonnesOK) =>
        \A k \in DOMAIN ret.rows :
            ret.rows[k].cells[ColDiametreSortie] = PremierDiametre(ret.rows[k].cells[COL_COMPTEUR])

\* C9 (as claimed): for files with the required columns ajouter_diametres does
\* not fail and the columns of its result are those of the extraction file, in
\* order and unrenamed, followed by "Diametre".
C9_Colonnes ==
    (pc # "charge" /\ AjoutColonnesOK) =>
        /\ pc = "ajoute"
        /\ ret.columns = orig1.columns \o <<COL_DIAMETRE>>

\* C4 (as claimed): when a file lacks a required column the operation returns
\* the empty table and one error that names the missing columns, all of them
\* and no other.
C4_ErreurSchema ==
    (pc # "charge" /\ AjoutManquantes # {}) =>
        /\ ret = EmptyDataFrame
        /\ Len(erreurs) = 1
        /\ Range(erreurs[1].colonnes) = AjoutManquantes
====
